---- MODULE Spec2Model ----
(***************************************************************************)
(* The services read API of com.kong.connect: the list operation            *)
(* (handler.GetServices -> service.GetServices -> repository.GetAll) and    *)
(* the get-by-id operation over the SQLite tables services and              *)
(* service_versions, the routers and middleware in front of them, and       *)
(* database.InitDB, which seeds the tables.                                 *)
(*                                                                          *)
(* Go strings are TLA+ strings; Chars gives the bytes of every string the   *)
(* model uses, and every operation that looks inside a string (LIKE,        *)
(* strings.ToUpper, strconv.Atoi, the BINARY collation) works on the bytes. *)
(* Go's int is IntBits wide, two's complement; the width is scaled down     *)
(* from 64 so that the model checker's own integers carry the arithmetic.   *)
(***************************************************************************)
EXTENDS Integers, Sequences, FiniteSets, TLC

VARIABLES
    db,        \* the store: [services, service_versions, rowOrder]
    pc,        \* where the call in progress stands
    r,         \* the HTTP request's query parameters (NoRequest: a direct call)
    arg,       \* the ServiceQuery handed to ServiceService.GetServices
    query,     \* GetServices' own copy, validated, handed to GetAll
    total,     \* GetAll: the count query's result
    rows,      \* GetAll: the result rows not yet scanned; GetByID: the row scanned
    services,  \* GetAll: the []ServiceWithVersions built so far
    stmt,      \* the statement GetAll or GetByID sent to the store last
    ret,       \* what ServiceService.GetServices or GetServiceByID returned
    w,         \* the http.ResponseWriter: status and body
    last,      \* history: what the caller keeps of a call that succeeded before
    request,   \* the HTTP request at a router: the router, the path, the headers
    ctx,       \* the user in the request's context (UserContextKey)
    muxVars,   \* ServiceHandler.GetServiceByID: idStr, exists := mux.Vars(r)["id"]
    id,        \* the id handed to ServiceService.GetServiceByID
    dbErr,     \* the error the store reported during the call, read or not
    cancelled, \* the request's context is done: what the call had done by then
    seed,      \* database.InitDB: where it stands and what it returned
    calls      \* list and get-by-id calls running side by side, each its locals

vars == <<db, pc, r, arg, query, total, rows, services, stmt, ret, w, last,
          request, ctx, muxVars, id, dbErr, cancelled, seed, calls>>

(***************************************************************************)
(* Bounds of the model.                                                     *)
(***************************************************************************)
\* Width of Go's int in the model (64 in the build).
IntBits == 12
\* The number of calls that run side by side.
MaxCalls == 2

(***************************************************************************)
(* Strings.                                                                 *)
(***************************************************************************)
LoremIpsum ==
    "Lorem ipsum dolor sit amet, consectetur adipiscing elit. Turpis non a, pellentesque ipsum aliquet id..."

\* The bytes of each string.
Chars ==
    ("" :> <<>>)
 @@ ("Locate Us" :> <<"L", "o", "c", "a", "t", "e", " ", "U", "s">>)
 @@ ("Collect Monday" :> <<"C", "o", "l", "l", "e", "c", "t", " ", "M", "o", "n", "d", "a", "y">>)
 @@ ("Contact Us" :> <<"C", "o", "n", "t", "a", "c", "t", " ", "U", "s">>)
 @@ ("FX Rates International" :>
        <<"F", "X", " ", "R", "a", "t", "e", "s", " ", "I", "n", "t", "e", "r", "n", "a", "t", 
          "i", "o", "n", "a", "l">>)
 @@ ("Notifications" :> <<"N", "o", "t", "i", "f", "i", "c", "a", "t", "i", "o", "n", "s">>)
 @@ ("Priority Services" :>
        <<"P", "r", "i", "o", "r", "i", "t", "y", " ", "S", "e", "r", "v", "i", "c", "e", "s">>)
 @@ ("Reporting" :> <<"R", "e", "p", "o", "r", "t", "i", "n", "g">>)
 @@ ("Security" :> <<"S", "e", "c", "u", "r", "i", "t", "y">>)
 @@ ("Lorem ipsum dolor sit amet, consectetur adipiscing elit. Turpis non a, pellentesque ipsum aliquet id..." :>
        <<"L", "o", "r", "e", "m", " ", "i", "p", "s", "u", "m", " ", "d", "o", "l", "o", "r", 
          " ", "s", "i", "t", " ", "a", "m", "e", "t", ",", " ", "c", "o", "n", "s", "e", "c", 
          "t", "e", "t", "u", "r", " ", "a", "d", "i", "p", "i", "s", "c", "i", "n", "g", " ", 
          "e", "l", "i", "t", ".", " ", "T", "u", "r", "p", "i", "s", " ", "n", "o", "n", " ", 
          "a", ",", " ", "p", "e", "l", "l", "e", "n", "t", "e", "s", "q", "u", "e", " ", "i", 
          "p", "s", "u", "m", " ", "a", "l", "i", "q", "u", "e", "t", " ", "i", "d", ".", ".", 
          ".">>)
 @@ ("1.0.0" :> <<"1", ".", "0", ".", "0">>)
 @@ ("1.1.0" :> <<"1", ".", "1", ".", "0">>)
 @@ ("1.2.0" :> <<"1", ".", "2", ".", "0">>)
 @@ ("2.0.0" :> <<"2", ".", "0", ".", "0">>)
 @@ ("2.1.0" :> <<"2", ".", "1", ".", "0">>)
 @@ ("3.0.0" :> <<"3", ".", "0", ".", "0">>)
 @@ ("Alpha" :> <<"A", "l", "p", "h", "a">>)
 @@ ("alpha" :> <<"a", "l", "p", "h", "a">>)
 @@ ("beta" :> <<"b", "e", "t", "a">>)
 @@ ("Contact form" :> <<"C", "o", "n", "t", "a", "c", "t", " ", "f", "o", "r", "m">>)
 @@ ("second" :> <<"s", "e", "c", "o", "n", "d">>)
 @@ ("third" :> <<"t", "h", "i", "r", "d">>)
 @@ ("Contact" :> <<"C", "o", "n", "t", "a", "c", "t">>)
 @@ ("contact" :> <<"c", "o", "n", "t", "a", "c", "t">>)
 @@ ("_" :> <<"_">>)
 @@ ("zz" :> <<"z", "z">>)
 @@ ("name" :> <<"n", "a", "m", "e">>)
 @@ ("created_at" :> <<"c", "r", "e", "a", "t", "e", "d", "_", "a", "t">>)
 @@ ("updated_at" :> <<"u", "p", "d", "a", "t", "e", "d", "_", "a", "t">>)
 @@ ("createdAt" :> <<"c", "r", "e", "a", "t", "e", "d", "A", "t">>)
 @@ ("id" :> <<"i", "d">>)
 @@ ("asc" :> <<"a", "s", "c">>)
 @@ ("desc" :> <<"d", "e", "s", "c">>)
 @@ ("DESC" :> <<"D", "E", "S", "C">>)
 @@ ("up" :> <<"u", "p">>)
 @@ ("abc" :> <<"a", "b", "c">>)
 @@ ("-1" :> <<"-", "1">>)
 @@ ("0" :> <<"0">>)
 @@ ("1" :> <<"1">>)
 @@ ("2" :> <<"2">>)
 @@ ("5" :> <<"5">>)
 @@ ("12" :> <<"1", "2">>)
 @@ ("100" :> <<"1", "0", "0">>)
 @@ ("101" :> <<"1", "0", "1">>)
 @@ ("2047" :> <<"2", "0", "4", "7">>)
 @@ ("99999" :> <<"9", "9", "9", "9", "9">>)
 @@ ("Bearer " :> <<"B", "e", "a", "r", "e", "r", " ">>)
 @@ ("admin-token" :> <<"a", "d", "m", "i", "n", "-", "t", "o", "k", "e", "n">>)
 @@ ("viewer-token" :> <<"v", "i", "e", "w", "e", "r", "-", "t", "o", "k", "e", "n">>)
 @@ ("guest-token" :> <<"g", "u", "e", "s", "t", "-", "t", "o", "k", "e", "n">>)
 @@ ("Bearer admin-token" :>
        <<"B", "e", "a", "r", "e", "r", " ", "a", "d", "m", "i", "n", "-", "t", "o", "k", "e", 
          "n">>)
 @@ ("Bearer viewer-token" :>
        <<"B", "e", "a", "r", "e", "r", " ", "v", "i", "e", "w", "e", "r", "-", "t", "o", "k", 
          "e", "n">>)
 @@ ("Bearer guest-token" :>
        <<"B", "e", "a", "r", "e", "r", " ", "g", "u", "e", "s", "t", "-", "t", "o", "k", "e", 
          "n">>)
 @@ ("bearer admin-token" :>
        <<"b", "e", "a", "r", "e", "r", " ", "a", "d", "m", "i", "n", "-", "t", "o", "k", "e", 
          "n">>)
 @@ ("admin-token Bearer " :>
        <<"a", "d", "m", "i", "n", "-", "t", "o", "k", "e", "n", " ", "B", "e", "a", "r", "e", 
          "r", " ">>)

\* ASCII codes of the bytes in use.
CharCode ==
    (" " :> 32) @@ ("%" :> 37) @@ ("," :> 44) @@ ("-" :> 45) @@ ("." :> 46) @@ ("0" :> 48)
 @@ ("1" :> 49) @@ ("2" :> 50) @@ ("3" :> 51) @@ ("4" :> 52) @@ ("5" :> 53) @@ ("6" :> 54)
 @@ ("7" :> 55) @@ ("8" :> 56) @@ ("9" :> 57) @@ ("A" :> 65) @@ ("B" :> 66) @@ ("C" :> 67)
 @@ ("D" :> 68) @@ ("E" :> 69) @@ ("F" :> 70) @@ ("G" :> 71) @@ ("H" :> 72) @@ ("I" :> 73)
 @@ ("J" :> 74) @@ ("K" :> 75) @@ ("L" :> 76) @@ ("M" :> 77) @@ ("N" :> 78) @@ ("O" :> 79)
 @@ ("P" :> 80) @@ ("Q" :> 81) @@ ("R" :> 82) @@ ("S" :> 83) @@ ("T" :> 84) @@ ("U" :> 85)
 @@ ("V" :> 86) @@ ("W" :> 87) @@ ("X" :> 88) @@ ("Y" :> 89) @@ ("Z" :> 90) @@ ("_" :> 95)
 @@ ("a" :> 97) @@ ("b" :> 98) @@ ("c" :> 99) @@ ("d" :> 100) @@ ("e" :> 101) @@ ("f" :> 102)
 @@ ("g" :> 103) @@ ("h" :> 104) @@ ("i" :> 105) @@ ("j" :> 106) @@ ("k" :> 107) @@ ("l" :> 108)
 @@ ("m" :> 109) @@ ("n" :> 110) @@ ("o" :> 111) @@ ("p" :> 112) @@ ("q" :> 113) @@ ("r" :> 114)
 @@ ("s" :> 115) @@ ("t" :> 116) @@ ("u" :> 117) @@ ("v" :> 118) @@ ("w" :> 119) @@ ("x" :> 120)
 @@ ("y" :> 121) @@ ("z" :> 122)

CodeChar == [n \in {CharCode[c] : c \in DOMAIN CharCode} |->
                CHOOSE c \in DOMAIN CharCode : CharCode[c] = n] @@ <<>>

\* strings.ToUpper, on the bytes: ASCII letters only are in use.
ToUpperByte(c) ==
    IF c \in DOMAIN CharCode /\ CharCode[c] >= 97 /\ CharCode[c] <= 122
    THEN CodeChar[CharCode[c] - 32]
    ELSE c

RECURSIVE ToUpperFrom(_, _)
ToUpperFrom(bs, i) ==
    IF i > Len(bs) THEN <<>> ELSE <<ToUpperByte(bs[i])>> \o ToUpperFrom(bs, i + 1)

ToUpper(bs) == ToUpperFrom(bs, 1)

\* The bytes of each string, folded to upper case.
UpperChars == [str \in DOMAIN Chars |-> ToUpper(Chars[str])] @@ <<>>

\* memcmp order of two byte strings (SQLite's BINARY collation): -1, 0 or 1.
RECURSIVE CompareBytes(_, _, _)
CompareBytes(a, b, i) ==
    IF i > Len(a) /\ i > Len(b) THEN 0
    ELSE IF i > Len(a) THEN -1
    ELSE IF i > Len(b) THEN 1
    ELSE IF CharCode[a[i]] < CharCode[b[i]] THEN -1
    ELSE IF CharCode[a[i]] > CharCode[b[i]] THEN 1
    ELSE CompareBytes(a, b, i + 1)

(***************************************************************************)
(* Go's int.                                                                *)
(***************************************************************************)
MaxInt == 2^(IntBits - 1) - 1
MinInt == -(2^(IntBits - 1))

\* The value an int holds after an arithmetic result n: it wraps silently.
Wrap(n) == ((n - MinInt) % 2^IntBits) + MinInt

Digits == {"0", "1", "2", "3", "4", "5", "6", "7", "8", "9"}

RECURSIVE DigitsValue(_, _, _)
DigitsValue(bs, i, acc) ==
    IF i > Len(bs) THEN acc
    ELSE DigitsValue(bs, i + 1, acc * 10 + (CharCode[bs[i]] - 48))

\* strconv.Atoi: an optional sign, then decimal digits; a syntax error for
\* anything else, a range error for a value an int cannot hold.
Atoi(str) ==
    LET bs     == Chars[str]
        signed == bs # <<>> /\ bs[1] \in {"+", "-"}
        neg    == bs # <<>> /\ bs[1] = "-"
        ds     == IF signed THEN Tail(bs) ELSE bs
    IN  IF ds = <<>> \/ \E i \in 1..Len(ds) : ds[i] \notin Digits
        THEN [val |-> 0, err |-> "invalid syntax"]
        ELSE LET n == DigitsValue(ds, 1, 0)
             IN  IF neg /\ n > -MinInt THEN [val |-> MinInt, err |-> "value out of range"]
                 ELSE IF ~neg /\ n > MaxInt THEN [val |-> MaxInt, err |-> "value out of range"]
                 ELSE [val |-> IF neg THEN -n ELSE n, err |-> "nil"]

(***************************************************************************)
(* The store.  seedData fills an empty store with eight services of three   *)
(* versions each, every timestamp CURRENT_TIMESTAMP; a store that already   *)
(* holds services (an imported one) is left as it is.                        *)
(***************************************************************************)
SeedNames ==
    <<"Locate Us", "Collect Monday", "Contact Us", "FX Rates International",
      "Notifications", "Priority Services", "Reporting", "Security">>

SeedVersionLabels ==
    << <<"1.0.0", "1.1.0", "2.0.0">>, <<"1.0.0", "1.2.0", "2.1.0">>,
       <<"1.0.0", "1.1.0", "1.2.0">>, <<"1.0.0", "2.0.0", "3.0.0">>,
       <<"1.0.0", "1.1.0", "1.2.0">>, <<"1.0.0", "2.0.0", "2.1.0">>,
       <<"1.0.0", "1.1.0", "2.0.0">>, <<"1.0.0", "1.1.0", "1.2.0">> >>

SeedServices ==
    {[id |-> i, name |-> SeedNames[i], description |-> LoremIpsum,
      created_at |-> 1, updated_at |-> 1] : i \in 1..Len(SeedNames)}

SeedVersions ==
    {[id |-> 3 * (i - 1) + j, service_id |-> i, version |-> SeedVersionLabels[i][j],
      created_at |-> 1] : i \in 1..Len(SeedNames), j \in 1..3}

ImportedServices ==
    {[id |-> 1, name |-> "beta", description |-> "Contact form",
      created_at |-> 3, updated_at |-> 4],
     [id |-> 2, name |-> "Alpha", description |-> "second",
      created_at |-> 1, updated_at |-> 6],
     [id |-> 3, name |-> "alpha", description |-> "third",
      created_at |-> 1, updated_at |-> 5]}

ImportedVersions ==
    {[id |-> 1, service_id |-> 1, version |-> "1.0.0", created_at |-> 1],
     [id |-> 2, service_id |-> 1, version |-> "1.1.0", created_at |-> 2],
     [id |-> 3, service_id |-> 2, version |-> "1.0.0", created_at |-> 1]}

\* The order SQLite returns rows of equal sort key in is not specified; it
\* is a property of the store, the same for every query of an unchanged one.
RowOrders == {"rowid asc", "rowid desc"}

Stores ==
    {[services |-> SeedServices, service_versions |-> SeedVersions, rowOrder |-> o]
        : o \in RowOrders}
    \cup
    {[services |-> ImportedServices, service_versions |-> ImportedVersions, rowOrder |-> o]
        : o \in RowOrders}

(***************************************************************************)
(* SQLite.                                                                  *)
(***************************************************************************)
\* X LIKE P without an ESCAPE clause: "%" matches any run of bytes, "_" any
\* one byte, every other byte itself, ASCII letters without regard to case
\* (both sides are folded to upper case, which leaves "%" and "_" alone).
\* LikeAt: p from its i-th byte on matches s from its j-th byte on.
RECURSIVE LikeAt(_, _, _, _)
LikeAt(p, i, s, j) ==
    IF i > Len(p) THEN j > Len(s)
    ELSE IF p[i] = "%" THEN \E k \in j..(Len(s) + 1) : LikeAt(p, i + 1, s, k)
    ELSE IF j > Len(s) THEN FALSE
    ELSE IF p[i] = "_" THEN LikeAt(p, i + 1, s, j + 1)
    ELSE p[i] = s[j] /\ LikeAt(p, i + 1, s, j + 1)

Like(str, p) == LikeAt(ToUpper(p), 1, UpperChars[str], 1)

\* The WHERE clause of a statement on a row of services.
WhereHolds(row, st) ==
    IF st.whereClause = "" THEN TRUE
    ELSE Like(row.name, st.args[1]) \/ Like(row.description, st.args[2])

\* ORDER BY <column> <direction>: row a comes before row b.
SortKeyCompare(a, b, column) ==
    CASE column = "s.name"       -> CompareBytes(Chars[a.name], Chars[b.name], 1)
      [] column = "s.created_at" -> IF a.created_at < b.created_at THEN -1
                                    ELSE IF a.created_at > b.created_at THEN 1 ELSE 0
      [] column = "s.updated_at" -> IF a.updated_at < b.updated_at THEN -1
                                    ELSE IF a.updated_at > b.updated_at THEN 1 ELSE 0

RowBefore(a, b, orderBy, rowOrder) ==
    LET c == SortKeyCompare(a, b, orderBy[1])
    IN  IF c # 0 THEN (IF orderBy[2] = "DESC" THEN c > 0 ELSE c < 0)
        ELSE IF rowOrder = "rowid asc" THEN a.id < b.id ELSE a.id > b.id

\* The rows of S in the order RowBefore gives.
SortRows(S, orderBy, rowOrder) ==
    LET rank == [a \in S |-> Cardinality({b \in S : RowBefore(b, a, orderBy, rowOrder)})]
    IN  [i \in 1..Cardinality(S) |-> CHOOSE a \in S : rank[a] = i - 1]

\* LIMIT n OFFSET m: a negative OFFSET counts as 0, a negative LIMIT as none.
LimitOffset(seq, limit, offset) ==
    LET from == IF offset < 0 THEN 0 ELSE offset
        upto == IF limit < 0 THEN Len(seq)
                ELSE IF from + limit > Len(seq) THEN Len(seq) ELSE from + limit
    IN  SubSeq(seq, from + 1, upto)

\* SELECT COUNT(*) FROM services s <where>
SelectCount(d, st) == Cardinality({row \in d.services : WhereHolds(row, st)})

\* SELECT ... FROM services s <where> ORDER BY <orderBy> LIMIT ? OFFSET ?
SelectServices(d, st) ==
    LET n == Len(st.args)
    IN  LimitOffset(SortRows({row \in d.services : WhereHolds(row, st)},
                             st.orderBy, d.rowOrder),
                    st.args[n - 1], st.args[n])

\* SELECT ... FROM service_versions WHERE service_id = ? ORDER BY created_at DESC
SelectVersions(d, serviceID) ==
    LET S    == {v \in d.service_versions : v.service_id = serviceID}
        before(a, b) == IF a.created_at # b.created_at THEN a.created_at > b.created_at
                        ELSE IF d.rowOrder = "rowid asc" THEN a.id < b.id ELSE a.id > b.id
        rank == [a \in S |-> Cardinality({b \in S : before(b, a)})]
    IN  [i \in 1..Cardinality(S) |-> CHOOSE a \in S : rank[a] = i - 1]

\* What getVersionsByServiceID can return without an error: the versions in
\* the statement's order up to where rows.Next() turned false, which is the
\* end of the rows or, rows.Err() left unread, an error of the iteration.
getVersionsByServiceID(d, serviceID) ==
    LET versions == SelectVersions(d, serviceID)
    IN  {SubSeq(versions, 1, n) : n \in 0..Len(versions)}

(***************************************************************************)
(* handler.GetServices and service.GetServices: from the request to the     *)
(* validated query.                                                          *)
(***************************************************************************)
DefaultPageSize == 12
MaxPageSize == 100

\* Mutant of the handler's parsing: a page or page size of 0 accepted.
HandlerQuery_ZeroAccepted(req) ==
    LET page     == Atoi(req.page)
        pageSize == Atoi(req.page_size)
    IN  [Search   |-> req.search,
         SortBy   |-> req.sort_by,
         SortDir  |-> req.sort_dir,
         Page     |-> IF req.page # "" /\ page.err = "nil" /\ page.val >= 0
                      THEN page.val ELSE 1,
         PageSize |-> IF req.page_size # "" /\ pageSize.err = "nil" /\ pageSize.val >= 0
                      THEN pageSize.val ELSE 12]

\* The ServiceQuery the handler builds from the URL's query parameters; a
\* parameter that is absent reads as "".
HandlerQuery(req) ==
    LET page     == Atoi(req.page)
        pageSize == Atoi(req.page_size)
    IN  [Search   |-> req.search,
         SortBy   |-> req.sort_by,
         SortDir  |-> req.sort_dir,
         Page     |-> IF req.page # "" /\ page.err = "nil" /\ page.val > 0
                      THEN page.val ELSE 1,
         PageSize |-> IF req.page_size # "" /\ pageSize.err = "nil" /\ pageSize.val > 0
                      THEN pageSize.val ELSE 12]

\* Mutants of the validation: a page of 0 let through, no upper limit on the
\* page size, the sort direction left as given.
ValidatePage_ZeroPasses(page) == IF page < 0 THEN 1 ELSE page

ValidatePageSize_NoMaximum(pageSize) ==
    IF pageSize <= 0 THEN 12 ELSE pageSize

ValidateSortDir_AsGiven(sortDir) == sortDir

\* GetServices' validation of its query.
ValidatePage(page) == IF page <= 0 THEN 1 ELSE page

ValidatePageSize(pageSize) ==
    LET defaulted == IF pageSize <= 0 THEN DefaultPageSize ELSE pageSize
    IN  IF defaulted > MaxPageSize THEN MaxPageSize ELSE defaulted

ValidateSortDir(sortDir) ==
    IF sortDir # "asc" /\ sortDir # "desc" THEN "asc" ELSE sortDir

Validate(q) ==
    [q EXCEPT !.Page = ValidatePage(q.Page),
              !.PageSize = ValidatePageSize(q.PageSize),
              !.SortDir = ValidateSortDir(q.SortDir)]

\* Mutant of the page count: the quotient rounded down.
TotalPages_Floor(t, pageSize) == t \div pageSize

\* int(math.Ceil(float64(total) / float64(pageSize))), total >= 0 < pageSize:
\* the quotient of two row counts is exact enough in a float64 for its
\* ceiling to be the integer one.
TotalPages(t, pageSize) ==
    IF t % pageSize = 0 THEN t \div pageSize ELSE (t \div pageSize) + 1

(***************************************************************************)
(* repository.GetAll: the statements it builds.                             *)
(***************************************************************************)
WhereClause(q) ==
    IF q.Search # "" THEN "WHERE s.name LIKE ? OR s.description LIKE ?" ELSE ""

SearchTerm(q) == <<"%">> \o Chars[q.Search] \o <<"%">>

WhereArgs(q) == IF q.Search # "" THEN <<SearchTerm(q), SearchTerm(q)>> ELSE <<>>

\* Mutants of the ORDER BY clause: the direction dropped, and a sort field
\* outside the switch falling back to another column than the name.
OrderBy_AlwaysAscending(q) ==
    CASE q.SortBy = "created_at" -> <<"s.created_at", "ASC">>
      [] q.SortBy = "updated_at" -> <<"s.updated_at", "ASC">>
      [] OTHER                   -> <<"s.name", "ASC">>

OrderBy_FallbackCreatedAt(q) ==
    LET direction == IF q.SortDir = "desc" THEN "DESC" ELSE "ASC"
    IN  CASE q.SortBy = "name"       -> <<"s.name", direction>>
          [] q.SortBy = "updated_at" -> <<"s.updated_at", direction>>
          [] q.SortBy = ""           -> <<"s.name", "ASC">>
          [] OTHER                   -> <<"s.created_at", direction>>

\* The ORDER BY clause, as <<column, direction>>.
OrderBy(q) ==
    IF q.SortBy # ""
    THEN LET direction == IF ToUpper(Chars[q.SortDir]) = Chars["DESC"]
                          THEN "DESC" ELSE "ASC"
         IN  CASE q.SortBy = "name"       -> <<"s.name", direction>>
               [] q.SortBy = "created_at" -> <<"s.created_at", direction>>
               [] q.SortBy = "updated_at" -> <<"s.updated_at", direction>>
               [] OTHER                   -> <<"s.name", "ASC">>
    ELSE <<"s.name", "ASC">>

Offset(q) == Wrap((q.Page - 1) * q.PageSize)

CountStmt(q) ==
    [sql |-> "SELECT COUNT(*) FROM services s", whereClause |-> WhereClause(q),
     orderBy |-> <<>>, args |-> WhereArgs(q)]

ServicesStmt(q) ==
    [sql |-> "SELECT ... FROM services s", whereClause |-> WhereClause(q),
     orderBy |-> OrderBy(q), args |-> WhereArgs(q) \o <<q.PageSize, Offset(q)>>]

NoStmt == [sql |-> "", whereClause |-> "", orderBy |-> <<>>, args |-> <<>>]

(***************************************************************************)
(* The calls.                                                                *)
(***************************************************************************)
\* Query parameters of the requests, and arguments of the direct calls.
SearchParams == {"", "Contact", "contact", "_", "zz"}
SortByParams == {"", "name", "created_at", "updated_at", "id"}
SortDirParams == {"", "asc", "desc", "DESC", "up"}
PageParams == {"", "abc", "-1", "0", "1", "2", "2047", "99999"}
PageSizeParams == {"", "abc", "0", "5", "100", "101", "2047"}
PageArgs == {-1, 0, 2}
PageSizeArgs == {-1, 0, 3, 101}

\* The requests and calls the model makes: every page and page size with a
\* few searches and sorts, and every search and sort with a few pages and
\* page sizes.
PagingCase(search, sort_by, sort_dir) ==
    /\ search \in {"", "Contact", "_"}
    /\ <<sort_by, sort_dir>> \in {<<"", "">>, <<"created_at", "desc">>, <<"name", "DESC">>}

SortingCase(page, page_size) == page \in {"", "2"} /\ page_size \in {"", "5"}

\* The list calls in which a failing iteration of a versions query is
\* explored, one per call: those of the default query.
VersionFaultCase(q) ==
    /\ q.Search = "" /\ q.SortBy = "" /\ q.SortDir = "asc"
    /\ q.Page = 1 /\ q.PageSize = DefaultPageSize

StoreError == "database is locked"

NoResponseWriter == [status |-> 0, text |-> "", json |-> <<>>]
NoReturn == [response |-> <<>>, err |-> <<>>]

\* GetServices returns: the handler, if there is one, writes the response.
Return(response, err) ==
    /\ ret' = [response |-> response, err |-> err]
    /\ w' = IF r = <<>> THEN NoResponseWriter
            ELSE IF err # <<>>
            THEN [status |-> 500, text |-> "Internal server error", json |-> <<>>]
            ELSE [status |-> 200, text |-> "", json |-> response]
    /\ pc' = "done"
    /\ total' = 0
    /\ rows' = <<>>
    /\ services' = <<>>

\* A store call failed: GetAll returns the error, GetServices wraps it.
Fail ==
    /\ Return(<<>>, <<"failed to get services: ", StoreError>>)
    /\ dbErr' = <<StoreError>>

\* Up to the first store call: the service validates, GetAll builds its clauses.
Enter(req, q) ==
    /\ r' = req
    /\ arg' = <<q>>
    /\ query' = <<Validate(q)>>
    /\ pc' = "count"
    /\ total' = 0
    /\ rows' = <<>>
    /\ services' = <<>>
    /\ stmt' = NoStmt
    /\ ret' = NoReturn
    /\ w' = NoResponseWriter
    /\ muxVars' = <<>>
    /\ id' = <<>>
    /\ dbErr' = <<>>
    /\ UNCHANGED <<db, last>>

\* GET /api/v1/services?...
HandlerGetServices ==
    /\ pc = "idle"
    /\ \E search \in SearchParams, sort_by \in SortByParams, sort_dir \in SortDirParams,
       page \in PageParams, page_size \in PageSizeParams :
        LET req == [search |-> search, sort_by |-> sort_by, sort_dir |-> sort_dir,
                    page |-> page, page_size |-> page_size]
        IN  /\ PagingCase(search, sort_by, sort_dir) \/ SortingCase(page, page_size)
            /\ Enter(<<req>>, HandlerQuery(req))
    /\ UNCHANGED <<request, ctx>>
    /\ UNCHANGED <<cancelled, seed, calls>>

\* ServiceService.GetServices called with a query of the caller's own.
ServiceGetServices ==
    /\ pc = "idle"
    /\ \E search \in SearchParams, sort_by \in SortByParams, sort_dir \in SortDirParams,
       page \in PageArgs, page_size \in PageSizeArgs :
        /\ PagingCase(search, sort_by, sort_dir) \/ (page = 2 /\ page_size = 3)
        /\ Enter(<<>>, [Search |-> search, SortBy |-> sort_by, SortDir |-> sort_dir,
                        Page |-> page, PageSize |-> page_size])
    /\ UNCHANGED <<request, ctx>>
    /\ UNCHANGED <<cancelled, seed, calls>>

\* GetAll: the count query.
CountQuery ==
    /\ pc = "count"
    /\ stmt' = CountStmt(query[1])
    /\ \/ /\ total' = SelectCount(db, CountStmt(query[1]))
          /\ pc' = "list"
          /\ UNCHANGED <<rows, services, ret, w, dbErr>>
       \/ Fail
    /\ UNCHANGED <<db, r, arg, query, last, request, ctx, muxVars, id>>
    /\ UNCHANGED <<cancelled, seed, calls>>

\* GetAll: the services query.
ServicesQuery ==
    /\ pc = "list"
    /\ stmt' = ServicesStmt(query[1])
    /\ \/ /\ rows' = SelectServices(db, ServicesStmt(query[1]))
          /\ pc' = "rows"
          /\ UNCHANGED <<total, services, ret, w, dbErr>>
       \/ Fail
    /\ UNCHANGED <<db, r, arg, query, last, request, ctx, muxVars, id>>
    /\ UNCHANGED <<cancelled, seed, calls>>

\* GetAll: rows.Next() gives a row; it is scanned and its versions fetched.
RowsNext ==
    /\ pc = "rows"
    /\ rows # <<>>
    /\ \/ /\ \E versions \in getVersionsByServiceID(db, Head(rows).id) :
                LET short == versions # SelectVersions(db, Head(rows).id)
                IN  /\ short => (dbErr = <<>> /\ VersionFaultCase(query[1]))
                    /\ services' = Append(services, [service  |-> Head(rows),
                                                     versions |-> versions])
                    /\ dbErr' = IF short THEN <<StoreError>> ELSE dbErr
          /\ rows' = Tail(rows)
          /\ UNCHANGED <<pc, total, ret, w>>
       \/ Fail
    /\ UNCHANGED <<db, r, arg, query, stmt, last, request, ctx, muxVars, id>>
    /\ UNCHANGED <<cancelled, seed, calls>>

\* Mutant of the response: the total taken from the page's own length.
Response_TotalOfPage(q, svcs, t) ==
    [Services |-> svcs, Total |-> Len(svcs), Page |-> q.Page, PageSize |-> q.PageSize,
     TotalPages |-> TotalPages(Len(svcs), q.PageSize)]

\* The response GetServices builds from what GetAll returned.
Response(q, svcs, t) ==
    [Services |-> svcs, Total |-> t, Page |-> q.Page, PageSize |-> q.PageSize,
     TotalPages |-> TotalPages(t, q.PageSize)]

\* GetAll: rows.Next() is false, at the end of the rows or, rows.Err() left
\* unread, at an error of the iteration; GetAll returns what it has.
RowsEnd ==
    /\ pc = "rows"
    /\ Return(<<Response(query[1], services, total)>>, <<>>)
    /\ dbErr' = IF rows # <<>> THEN <<StoreError>> ELSE dbErr
    /\ UNCHANGED <<db, r, arg, query, stmt, last, request, ctx, muxVars, id>>
    /\ UNCHANGED <<cancelled, seed, calls>>

(***************************************************************************)
(* handler.GetServiceByID, service.GetServiceByID, repository.GetByID.      *)
(***************************************************************************)
\* The decimal digits of n >= 0, and fmt's %d of an int.
RECURSIVE DigitBytes(_)
DigitBytes(n) ==
    IF n < 10 THEN <<CodeChar[48 + n]>>
    ELSE DigitBytes(n \div 10) \o <<CodeChar[48 + (n % 10)]>>

Itoa(n) ==
    LET bs == IF n < 0 THEN <<"-">> \o DigitBytes(-n) ELSE DigitBytes(n)
    IN  CHOOSE str \in DOMAIN Chars : Chars[str] = bs

\* Path parameters of the requests, and arguments of the direct calls.
IdParams == {"0", "1", "2", "12", "-1", "abc", "99999"}
IdArgs == {-1, 0, 1, 2, 12}

\* The errors GetServiceByID returns, as the parts fmt.Errorf puts together.
ErrInvalidServiceID(n) == <<"invalid service ID: ", Itoa(n)>>
ErrServiceNotFound == <<"service not found">>
ErrFailedToGetService(err) == <<"failed to get service: ", err>>

\* sql.ErrNoRows
ErrNoRows == "sql: no rows in result set"

\* Mutant of the id check: 0 let through.
InvalidID_ZeroPasses(n) == n < 0

\* GetServiceByID's check of its id.
InvalidID(n) == n <= 0

GetByIDStmt(n) ==
    [sql |-> "SELECT ... FROM services WHERE id = ?", whereClause |-> "WHERE id = ?",
     orderBy |-> <<>>, args |-> <<n>>]

\* SELECT ... FROM services WHERE id = ?
SelectByID(d, n) == {row \in d.services : row.id = n}

\* Mutant of GetByID: every error of the lookup taken for absence.
GetByIDScanFailed_AllAbsent(err) == [result |-> <<>>, err |-> <<>>]

\* GetByID when QueryRow(...).Scan failed: no row is (nil, nil), anything
\* else the error.
GetByIDScanFailed(err) ==
    IF err = ErrNoRows THEN [result |-> <<>>, err |-> <<>>]
    ELSE [result |-> <<>>, err |-> <<err>>]

\* GetServiceByID's return from what GetByID returned.
GetServiceByIDResult(got) ==
    IF got.err # <<>>
    THEN [response |-> <<>>, err |-> ErrFailedToGetService(got.err[1])]
    ELSE IF got.result = <<>>
    THEN [response |-> <<>>, err |-> ErrServiceNotFound]
    ELSE [response |-> got.result, err |-> <<>>]

\* Mutant of the handler: the error's own text as the body.
GetServiceByIDResponse_ErrorText(res) ==
    IF res.err # <<>>
    THEN [status |-> 500, text |-> res.err[Len(res.err)], json |-> <<>>]
    ELSE [status |-> 200, text |-> "", json |-> res.response]

\* The response the handler writes for what GetServiceByID returned.
GetServiceByIDResponse(res) ==
    IF res.err # <<>>
    THEN IF res.err = ErrServiceNotFound
         THEN [status |-> 404, text |-> "Service not found", json |-> <<>>]
         ELSE [status |-> 500, text |-> "Internal server error", json |-> <<>>]
    ELSE [status |-> 200, text |-> "", json |-> res.response]

\* No call of the service is under way.
NoCall ==
    /\ r' = <<>>
    /\ arg' = <<>>
    /\ query' = <<>>
    /\ id' = <<>>
    /\ total' = 0
    /\ rows' = <<>>
    /\ services' = <<>>
    /\ stmt' = NoStmt
    /\ ret' = NoReturn
    /\ dbErr' = <<>>

\* http.Error(w, text, status): the request ends before any call.
HttpError(status, text) ==
    /\ w' = [status |-> status, text |-> text, json |-> <<>>]
    /\ pc' = "done"
    /\ NoCall

\* GetServiceByID returns res: the handler, if there is one (mv), writes.
ReturnByID(mv, res) ==
    /\ ret' = res
    /\ w' = IF mv = <<>> THEN NoResponseWriter ELSE GetServiceByIDResponse(res)
    /\ pc' = "done"
    /\ rows' = <<>>

\* ServiceService.GetServiceByID(n) up to the store call, the handler (mv)
\* waiting for it.
EnterByID(mv, n) ==
    /\ muxVars' = mv
    /\ id' = <<n>>
    /\ r' = <<>>
    /\ arg' = <<>>
    /\ query' = <<>>
    /\ total' = 0
    /\ services' = <<>>
    /\ stmt' = NoStmt
    /\ dbErr' = <<>>
    /\ IF InvalidID(n)
       THEN ReturnByID(mv, [response |-> <<>>, err |-> ErrInvalidServiceID(n)])
       ELSE /\ pc' = "byid"
            /\ rows' = <<>>
            /\ ret' = NoReturn
            /\ w' = NoResponseWriter
    /\ UNCHANGED <<db, last>>

\* ServiceHandler.GetServiceByID with the path variables mv.
ServeGetServiceByID(mv) ==
    IF ~mv.exists
    THEN /\ HttpError(400, "Service ID is required")
         /\ muxVars' = <<mv>>
         /\ UNCHANGED <<db, last>>
    ELSE IF Atoi(mv.idStr).err # "nil"
    THEN /\ HttpError(400, "Invalid service ID")
         /\ muxVars' = <<mv>>
         /\ UNCHANGED <<db, last>>
    ELSE EnterByID(<<mv>>, Atoi(mv.idStr).val)

\* The handler called with a request of the caller's own.
HandlerGetServiceByID ==
    /\ pc = "idle"
    /\ \E mv \in {[idStr |-> "", exists |-> FALSE]}
                 \cup {[idStr |-> str, exists |-> TRUE] : str \in IdParams} :
          ServeGetServiceByID(mv)
    /\ UNCHANGED <<request, ctx>>
    /\ UNCHANGED <<cancelled, seed, calls>>

\* ServiceService.GetServiceByID called with an id of the caller's own.
ServiceGetServiceByID ==
    /\ pc = "idle"
    /\ \E n \in IdArgs : EnterByID(<<>>, n)
    /\ UNCHANGED <<request, ctx>>
    /\ UNCHANGED <<cancelled, seed, calls>>

\* GetByID: the lookup of the service.
GetByIDQuery ==
    /\ pc = "byid"
    /\ stmt' = GetByIDStmt(id[1])
    /\ \/ /\ SelectByID(db, id[1]) # {}
          /\ rows' = <<CHOOSE row \in SelectByID(db, id[1]) : TRUE>>
          /\ pc' = "versions"
          /\ UNCHANGED <<ret, w, dbErr>>
       \/ /\ SelectByID(db, id[1]) = {}
          /\ ReturnByID(muxVars, GetServiceByIDResult(GetByIDScanFailed(ErrNoRows)))
          /\ UNCHANGED dbErr
       \/ /\ ReturnByID(muxVars, GetServiceByIDResult(GetByIDScanFailed(StoreError)))
          /\ dbErr' = <<StoreError>>
    /\ UNCHANGED <<db, r, arg, query, total, services, last, request, ctx, muxVars, id>>
    /\ UNCHANGED <<cancelled, seed, calls>>

\* GetByID: the versions of the service found, and the return.
GetByIDVersions ==
    /\ pc = "versions"
    /\ \/ \E versions \in getVersionsByServiceID(db, rows[1].id) :
             /\ ReturnByID(muxVars, GetServiceByIDResult(
                    [result |-> <<[service |-> rows[1], versions |-> versions]>>,
                     err |-> <<>>]))
             /\ dbErr' = IF versions # SelectVersions(db, rows[1].id)
                         THEN <<StoreError>> ELSE dbErr
       \/ /\ ReturnByID(muxVars, GetServiceByIDResult([result |-> <<>>, err |-> <<StoreError>>]))
          /\ dbErr' = <<StoreError>>
    /\ UNCHANGED <<db, r, arg, query, total, services, stmt, last, request, ctx, muxVars, id>>
    /\ UNCHANGED <<cancelled, seed, calls>>

(***************************************************************************)
(* The middleware and the routers.                                          *)
(***************************************************************************)
\* strings.HasPrefix and strings.TrimPrefix, on the bytes.
HasPrefix(bs, prefix) ==
    Len(bs) >= Len(prefix) /\ SubSeq(bs, 1, Len(prefix)) = prefix

TrimPrefix(bs, prefix) ==
    IF HasPrefix(bs, prefix) THEN SubSeq(bs, Len(prefix) + 1, Len(bs)) ELSE bs

\* Mutant of validateToken: every token taken for the admin's.
validateToken_AnyToken(token) ==
    [user |-> <<[Username |-> "admin", Roles |-> <<"admin">>]>>, err |-> <<>>]

\* validateToken, on the token's bytes.
validateToken(token) ==
    IF token = Chars["admin-token"]
    THEN [user |-> <<[Username |-> "admin", Roles |-> <<"admin">>]>>, err |-> <<>>]
    ELSE IF token = Chars["viewer-token"]
    THEN [user |-> <<[Username |-> "viewer", Roles |-> <<"viewer">>]>>, err |-> <<>>]
    ELSE [user |-> <<>>, err |-> <<"http: named cookie not present">>]

\* What a middleware does with a request: status 0 hands it to the next
\* handler with user in its context, any other status answers it.
Pass(user) == [status |-> 0, text |-> "", user |-> user]
Stop(status, text, user) == [status |-> status, text |-> text, user |-> user]

\* AuthMiddleware on the Authorization header ("" when there is none).
AuthMiddleware(authHeader) ==
    IF ~HasPrefix(Chars[authHeader], Chars["Bearer "])
    THEN Stop(401, "Unauthorized", <<>>)
    ELSE LET claims == validateToken(TrimPrefix(Chars[authHeader], Chars["Bearer "]))
         IN  IF claims.err # <<>> THEN Stop(401, "Invalid token", <<>>)
             ELSE Pass(claims.user)

\* Mutant of RoleAuthorization: only the user's first role looked at.
RoleAuthorization_FirstRoleOnly(allowedRoles, user) ==
    IF user # <<>> /\ user[1].Roles # <<>>
          /\ \E k \in 1..Len(allowedRoles) : user[1].Roles[1] = allowedRoles[k]
    THEN Pass(user)
    ELSE Stop(403, "Forbidden", user)

\* RoleAuthorization(allowedRoles...) on the user of the request's context.
RoleAuthorization(allowedRoles, user) ==
    IF user = <<>> THEN Stop(403, "Forbidden", user)
    ELSE IF \E i \in 1..Len(user[1].Roles), k \in 1..Len(allowedRoles) :
                user[1].Roles[i] = allowedRoles[k]
    THEN Pass(user)
    ELSE Stop(403, "Forbidden", user)

\* middleware.AuthorizeRoles(handler, roles...), which SetupRouter wraps its
\* handlers in: the token is validated, then the roles are checked.
AuthorizeRoles(authHeader, allowedRoles) ==
    LET authenticated == AuthMiddleware(authHeader)
    IN  IF authenticated.status # 0 THEN authenticated
        ELSE RoleAuthorization(allowedRoles, authenticated.user)

\* The middlewares in front of a handler, outermost first, from index i on.
\* corsMiddleware and loggingMiddleware pass every GET on and are left out.
RECURSIVE Chain(_, _, _, _)
Chain(middlewares, i, authHeader, user) ==
    IF i > Len(middlewares) THEN Pass(user)
    ELSE LET out == CASE middlewares[i] = "AuthMiddleware" -> AuthMiddleware(authHeader)
                      [] middlewares[i] = "RoleAuthorization" ->
                            RoleAuthorization(<<"admin", "viewer">>, user)
                      [] middlewares[i] = "AuthorizeRoles" ->
                            AuthorizeRoles(authHeader, <<"admin", "viewer">>)
         IN  IF out.status # 0 THEN out
             ELSE Chain(middlewares, i + 1, authHeader, out.user)

\* The routes each router holds, in the order they were registered, every
\* one for GET, with the middlewares gorilla/mux puts in front of a match.
\* main: RegisterRoutes' subrouter, then main's own subrouter of the same
\* paths with the role check, then /health, AuthMiddleware on the router.
Route(path, handler, middlewares) ==
    [path |-> path, handler |-> handler, middlewares |-> middlewares]

RegisterRoutes(middlewares) ==
    <<Route(<<"api", "v1", "services">>, "GetServices", middlewares),
      Route(<<"api", "v1", "services", "{id:[0-9]+}">>, "GetServiceByID", middlewares)>>

Routes(router) ==
    CASE router = "main" ->
            RegisterRoutes(<<"AuthMiddleware">>)
            \o RegisterRoutes(<<"AuthMiddleware", "RoleAuthorization">>)
            \o <<Route(<<"health">>, "healthCheckHandler", <<"AuthMiddleware">>)>>
      [] router = "SetupRouter" ->
            <<Route(<<"api", "v1", "services">>, "GetServices", <<"AuthorizeRoles">>),
              Route(<<"api", "v1", "services", "{id}">>, "GetServiceByID",
                    <<"AuthorizeRoles">>),
              Route(<<"health">>, "healthCheckHandler", <<>>)>>
      [] router = "setupTestServer" -> RegisterRoutes(<<>>)

Routers == {"main", "SetupRouter", "setupTestServer"}

\* A segment of a route's path matches a segment of the request's: {id} is
\* [^/]+, {id:[0-9]+} the pattern given, anything else the text itself.
SegmentMatches(pattern, segment) ==
    CASE pattern = "{id}" -> Chars[segment] # <<>>
      [] pattern = "{id:[0-9]+}" ->
            /\ Chars[segment] # <<>>
            /\ \A i \in 1..Len(Chars[segment]) : Chars[segment][i] \in Digits
      [] OTHER -> pattern = segment

RouteMatches(route, path) ==
    /\ Len(route.path) = Len(path)
    /\ \A i \in 1..Len(path) : SegmentMatches(route.path[i], path[i])

\* Router.Match: the first route that matches, or none.
Match(routes, path) ==
    LET hits == {i \in 1..Len(routes) : RouteMatches(routes[i], path)}
    IN  IF hits = {} THEN <<>>
        ELSE <<routes[CHOOSE i \in hits : \A j \in hits : i <= j]>>

\* The requests made of the routers, all GET: their paths and their
\* Authorization headers ("" is no header), and the list request they carry.
Paths ==
    {<<"api", "v1", "services">>, <<"health">>, <<"api", "v1", "versions">>}
    \cup {<<"api", "v1", "services", str>> : str \in IdParams}

AuthHeaders ==
    {"", "Bearer admin-token", "Bearer viewer-token", "Bearer guest-token",
     "bearer admin-token", "admin-token", "Bearer ", "admin-token Bearer "}

RoutedQuery == [search |-> "", sort_by |-> "", sort_dir |-> "", page |-> "", page_size |-> ""]

\* The users a caller of RoleAuthorization may have put in the context.
ContextUsers ==
    {<<>>,
     <<[Username |-> "admin", Roles |-> <<"admin">>]>>,
     <<[Username |-> "viewer", Roles |-> <<"viewer">>]>>,
     <<[Username |-> "guest", Roles |-> <<"guest">>]>>,
     <<[Username |-> "nobody", Roles |-> <<>>]>>,
     <<[Username |-> "auditor", Roles |-> <<"guest", "viewer">>]>>}

\* The request is answered without a handler of the services being called.
Answer(status, text) ==
    /\ HttpError(status, text)
    /\ muxVars' = <<>>
    /\ UNCHANGED <<db, last>>

\* The handler of the matched route is called.
Handle(handler, path) ==
    CASE handler = "GetServices" -> Enter(<<RoutedQuery>>, HandlerQuery(RoutedQuery))
      [] handler = "GetServiceByID" ->
            ServeGetServiceByID([idStr |-> path[Len(path)], exists |-> TRUE])
      [] handler = "healthCheckHandler" -> Answer(200, "OK")

\* The request went through the middlewares with the outcome out.
Served(out, handler, path) ==
    /\ ctx' = out.user
    /\ IF out.status # 0 THEN Answer(out.status, out.text) ELSE Handle(handler, path)

\* Router.ServeHTTP: a GET request at one of the routers.
ServeHTTP ==
    /\ pc = "idle"
    /\ \E router \in Routers, path \in Paths, authHeader \in AuthHeaders :
          LET match == Match(Routes(router), path)
          IN  /\ request' = <<[router |-> router, path |-> path,
                               Authorization |-> authHeader, match |-> match]>>
              /\ IF match = <<>>
                 THEN Answer(404, "404 page not found") /\ ctx' = <<>>
                 ELSE Served(Chain(match[1].middlewares, 1, authHeader, <<>>),
                             match[1].handler, path)
    /\ UNCHANGED <<cancelled, seed, calls>>

\* RoleAuthorization("admin", "viewer") in front of a handler, called with a
\* request whose context the caller filled.
RoleAuthorizationServeHTTP ==
    /\ pc = "idle"
    /\ \E user \in ContextUsers,
          route \in {Route(<<"api", "v1", "services">>, "GetServices",
                           <<"RoleAuthorization">>),
                     Route(<<"api", "v1", "services", "1">>, "GetServiceByID",
                           <<"RoleAuthorization">>)} :
          /\ request' = <<[router |-> "", path |-> route.path,
                           Authorization |-> "", match |-> <<route>>]>>
          /\ Served(Chain(route.middlewares, 1, "", user), route.handler, route.path)
    /\ UNCHANGED <<cancelled, seed, calls>>

\* The call is over: the caller (the server's connection, a test) is free to
\* make the next one.
Forget ==
    /\ pc = "done"
    /\ pc' = "idle"
    /\ r' = <<>>
    /\ arg' = <<>>
    /\ query' = <<>>
    /\ stmt' = NoStmt
    /\ ret' = NoReturn
    /\ w' = NoResponseWriter
    /\ request' = <<>>
    /\ ctx' = <<>>
    /\ muxVars' = <<>>
    /\ id' = <<>>
    /\ dbErr' = <<>>
    /\ UNCHANGED <<db, total, rows, services>>
    /\ cancelled' = <<>>
    /\ UNCHANGED <<seed, calls>>

Finish == Forget /\ UNCHANGED last

\* The same, the caller keeping what a successful call reported.
FinishRecord ==
    /\ Forget
    /\ last' = IF ret.err = <<>>
               THEN <<[Search |-> query[1].Search, Page |-> ret.response[1].Page,
                       Total |-> ret.response[1].Total]>>
               ELSE last

\* InitDB is not running, and no calls run side by side.
NotRunning == [pc |-> "idle", i |-> 0, j |-> 0, serviceID |-> 0, err |-> <<>>]
NoCalls == <<>>

Init ==
    /\ db \in Stores
    /\ pc = "idle"
    /\ r = <<>>
    /\ arg = <<>>
    /\ query = <<>>
    /\ total = 0
    /\ rows = <<>>
    /\ services = <<>>
    /\ stmt = NoStmt
    /\ ret = NoReturn
    /\ w = NoResponseWriter
    /\ last = <<>>
    /\ request = <<>>
    /\ ctx = <<>>
    /\ muxVars = <<>>
    /\ id = <<>>
    /\ dbErr = <<>>
    /\ cancelled = <<>>
    /\ seed = NotRunning
    /\ calls = NoCalls

Next ==
    \/ HandlerGetServices
    \/ ServiceGetServices
    \/ CountQuery
    \/ ServicesQuery
    \/ RowsNext
    \/ RowsEnd
    \/ HandlerGetServiceByID
    \/ ServiceGetServiceByID
    \/ GetByIDQuery
    \/ GetByIDVersions
    \/ ServeHTTP
    \/ RoleAuthorizationServeHTTP
    \/ Finish

Spec == Init /\ [][Next]_vars

\* Calls made one after another by a caller that compares their results.
NextHistory ==
    \/ ServiceGetServices
    \/ CountQuery
    \/ ServicesQuery
    \/ RowsNext
    \/ RowsEnd
    \/ FinishRecord

SpecHistory == Init /\ [][NextHistory]_vars

\* The same, the caller keeping the query and the response of its first
\* successful call, and whether the store reported an error during it.
FinishKeep ==
    /\ Forget
    /\ last' = IF last = <<>> /\ ret.err = <<>>
               THEN <<[Query |-> arg[1], Response |-> ret.response[1], dbErr |-> dbErr]>>
               ELSE last

\* The caller's first query.
FirstGetServices == last = <<>> /\ ServiceGetServices

\* The caller makes the query of its first successful call again.
RepeatGetServices ==
    /\ pc = "idle"
    /\ last # <<>>
    /\ Enter(<<>>, last[1].Query)
    /\ UNCHANGED <<request, ctx>>
    /\ UNCHANGED <<cancelled, seed, calls>>

\* A caller that repeats one list query against the unchanged store.
NextRepeat ==
    \/ FirstGetServices
    \/ RepeatGetServices
    \/ CountQuery
    \/ ServicesQuery
    \/ RowsNext
    \/ RowsEnd
    \/ FinishKeep

SpecRepeat == Init /\ [][NextRepeat]_vars

\* Another writer of the store: GetAll holds no transaction over its
\* queries, so a write may come between any two of them.  One write is
\* explored, made while a list call is between two of its queries.
MaxID(S) == IF S = {} THEN 0 ELSE CHOOSE n \in {row.id : row \in S} :
                                      \A row \in S : row.id <= n

\* INSERT INTO services (name, description) VALUES ('zz', 'third')
StoreInsert ==
    /\ pc \in {"list", "rows"}
    /\ db \in Stores
    /\ db' = [db EXCEPT !.services = @ \cup
                 {[id |-> MaxID(db.services) + 1, name |-> "zz", description |-> "third",
                   created_at |-> 9, updated_at |-> 9]}]
    /\ UNCHANGED <<pc, r, arg, query, total, rows, services, stmt, ret, w, last,
                   request, ctx, muxVars, id, dbErr>>
    /\ UNCHANGED <<cancelled, seed, calls>>

\* DELETE FROM services WHERE id = ?, the versions going with the service
\* (ON DELETE CASCADE).
StoreDelete ==
    /\ pc \in {"list", "rows"}
    /\ db \in Stores
    /\ \E sid \in {1, 2} :
          db' = [db EXCEPT !.services = {row \in @ : row.id # sid},
                           !.service_versions = {v \in @ : v.service_id # sid}]
    /\ UNCHANGED <<pc, r, arg, query, total, rows, services, stmt, ret, w, last,
                   request, ctx, muxVars, id, dbErr>>
    /\ UNCHANGED <<cancelled, seed, calls>>

\* List calls on a store that another process writes to.
NextWrites ==
    \/ ServiceGetServices
    \/ CountQuery
    \/ ServicesQuery
    \/ RowsNext
    \/ RowsEnd
    \/ StoreInsert
    \/ StoreDelete
    \/ Finish

SpecWrites == Init /\ [][NextWrites]_vars

\* The client of a request that is being served goes away, or its deadline
\* passes: net/http cancels the request's context.  The handlers do not
\* hand r.Context() to the service, whose methods take none, and the
\* repository calls QueryRow and Query, not their Context forms: nothing
\* reads the context, and the call goes on as the other actions have it.
\* Kept: the statement sent last and the number of items built by then.
Cancel ==
    /\ pc \in {"count", "list", "rows", "byid", "versions"}
    /\ r # <<>> \/ muxVars # <<>>
    /\ cancelled = <<>>
    /\ cancelled' = <<[stmt |-> stmt, services |-> Len(services)]>>
    /\ UNCHANGED <<db, pc, r, arg, query, total, rows, services, stmt, ret, w, last,
                   request, ctx, muxVars, id, dbErr, seed, calls>>

\* Requests whose context may be cancelled while they are served.
NextCancel ==
    \/ HandlerGetServices
    \/ CountQuery
    \/ ServicesQuery
    \/ RowsNext
    \/ RowsEnd
    \/ HandlerGetServiceByID
    \/ GetByIDQuery
    \/ GetByIDVersions
    \/ Cancel
    \/ Finish

SpecCancel == Init /\ [][NextCancel]_vars

(***************************************************************************)
(* database.InitDB: createTables and seedData, every statement its own      *)
(* transaction (DB.Exec outside of any Begin).                              *)
(***************************************************************************)
EmptyStores ==
    {[services |-> {}, service_versions |-> {}, rowOrder |-> o] : o \in RowOrders}

\* InitDB returns: nil, or the error of seedData wrapped.
InitDBReturn(err) ==
    [NotRunning EXCEPT !.pc = "returned",
                       !.err = IF err = <<>> THEN <<>>
                               ELSE <<"failed to seed data: ", err[1]>>]

\* The rest of the state, which InitDB does not touch.
SeedFrame ==
    UNCHANGED <<pc, r, arg, query, total, rows, services, stmt, ret, w, last,
                request, ctx, muxVars, id, dbErr, cancelled, calls>>

\* InitDB is called, at the start of a process: Open, Ping and createTables
\* (CREATE TABLE IF NOT EXISTS) leave the rows as they are.
InitDB ==
    /\ seed.pc \in {"idle", "returned"}
    /\ \/ seed' = [NotRunning EXCEPT !.pc = "count"]
       \/ seed' = [NotRunning EXCEPT !.pc = "returned",
                                     !.err = <<"failed to create tables: ", StoreError>>]
    /\ UNCHANGED db
    /\ SeedFrame

\* seedData: SELECT COUNT(*) FROM services, and the return when it is not 0.
SeedCount ==
    /\ seed.pc = "count"
    /\ \/ seed' = InitDBReturn(<<StoreError>>)
       \/ /\ Cardinality(db.services) > 0
          /\ seed' = InitDBReturn(<<>>)
       \/ /\ Cardinality(db.services) = 0
          /\ seed' = [seed EXCEPT !.pc = "service", !.i = 1]
    /\ UNCHANGED db
    /\ SeedFrame

\* seedData: the loop over the services, INSERT INTO services.
SeedInsertService ==
    /\ seed.pc = "service"
    /\ IF seed.i > Len(SeedNames)
       THEN seed' = InitDBReturn(<<>>) /\ UNCHANGED db
       ELSE \/ seed' = InitDBReturn(<<StoreError>>) /\ UNCHANGED db
            \/ /\ \A row \in db.services : row.name # SeedNames[seed.i]
               /\ db' = [db EXCEPT !.services = @ \cup
                            {[id |-> MaxID(db.services) + 1, name |-> SeedNames[seed.i],
                              description |-> LoremIpsum,
                              created_at |-> 1, updated_at |-> 1]}]
               /\ seed' = [seed EXCEPT !.pc = "version", !.j = 1,
                                       !.serviceID = MaxID(db.services) + 1]
    /\ SeedFrame

\* seedData: the loop over a service's versions, INSERT INTO service_versions.
SeedInsertVersion ==
    /\ seed.pc = "version"
    /\ IF seed.j > Len(SeedVersionLabels[seed.i])
       THEN seed' = [seed EXCEPT !.pc = "service", !.i = @ + 1] /\ UNCHANGED db
       ELSE \/ seed' = InitDBReturn(<<StoreError>>) /\ UNCHANGED db
            \/ /\ db' = [db EXCEPT !.service_versions = @ \cup
                            {[id |-> MaxID(db.service_versions) + 1,
                              service_id |-> seed.serviceID,
                              version |-> SeedVersionLabels[seed.i][seed.j],
                              created_at |-> 1]}]
               /\ seed' = [seed EXCEPT !.j = @ + 1]
    /\ SeedFrame

\* The process is stopped while InitDB runs; what was inserted stays.
SeedInterrupt ==
    /\ seed.pc \in {"count", "service", "version"}
    /\ seed' = NotRunning
    /\ UNCHANGED db
    /\ SeedFrame

\* An empty store and no other writer than InitDB, run again and again.
InitEmpty ==
    /\ db \in EmptyStores
    /\ pc = "idle"
    /\ r = <<>>
    /\ arg = <<>>
    /\ query = <<>>
    /\ total = 0
    /\ rows = <<>>
    /\ services = <<>>
    /\ stmt = NoStmt
    /\ ret = NoReturn
    /\ w = NoResponseWriter
    /\ last = <<>>
    /\ request = <<>>
    /\ ctx = <<>>
    /\ muxVars = <<>>
    /\ id = <<>>
    /\ dbErr = <<>>
    /\ cancelled = <<>>
    /\ seed = NotRunning
    /\ calls = NoCalls

NextInitDB ==
    \/ InitDB
    \/ SeedCount
    \/ SeedInsertService
    \/ SeedInsertVersion
    \/ SeedInterrupt

SpecInitDB == InitEmpty /\ [][NextInitDB]_vars

(***************************************************************************)
(* Calls side by side: net/http serves every request in a goroutine of its  *)
(* own.  The handler holds its service, the service its repository, the     *)
(* repository its *sql.DB, none of them written after construction; what a  *)
(* call works on (query, total, rows, services) are locals of its frames.   *)
(***************************************************************************)
ConcurrentQueries ==
    {[Search |-> "", SortBy |-> "", SortDir |-> "", Page |-> 1, PageSize |-> 2],
     [Search |-> "", SortBy |-> "created_at", SortDir |-> "desc",
      Page |-> 2, PageSize |-> 1]}

ConcurrentIDs == {0, 1, 12}

\* The response the list handler writes for what GetServices returned.
GetServicesResponse(res) ==
    IF res.err # <<>>
    THEN [status |-> 500, text |-> "Internal server error", json |-> <<>>]
    ELSE [status |-> 200, text |-> "", json |-> res.response]

\* A call returns res and its handler writes.
CallReturn(c, res) ==
    [c EXCEPT !.pc = "done", !.ret = res, !.rows = <<>>, !.services = <<>>,
              !.w = IF c.kind = "list" THEN GetServicesResponse(res)
                    ELSE GetServiceByIDResponse(res)]

\* A store call of the call failed.
CallFailed(c) ==
    [CallReturn(c, IF c.kind = "list"
                   THEN [response |-> <<>>, err |-> <<"failed to get services: ", StoreError>>]
                   ELSE GetServiceByIDResult([result |-> <<>>, err |-> <<StoreError>>]))
        EXCEPT !.dbErr = <<StoreError>>]

\* Mutant of the slice GetAll appends to: one slice for every call, as a
\* field of the repository would be.
Accumulated_SharedSlice(cs, p) == cs[1].services

\* The slice GetAll appends to: var services, a local of the call.
Accumulated(cs, p) == cs[p].services

ConcurrentFrame ==
    UNCHANGED <<db, pc, r, arg, query, total, rows, services, stmt, ret, w, last,
                request, ctx, muxVars, id, dbErr, cancelled, seed>>

\* A list request arrives and is served up to its first store call.
GoGetServices ==
    /\ Len(calls) < MaxCalls
    /\ \E q \in ConcurrentQueries :
          calls' = Append(calls,
                     [kind |-> "list", pc |-> "count", arg |-> <<q>>, id |-> <<>>,
                      query |-> <<Validate(q)>>, total |-> 0, rows |-> <<>>,
                      services |-> <<>>, ret |-> NoReturn, w |-> NoResponseWriter,
                      dbErr |-> <<>>])
    /\ ConcurrentFrame

\* A get-by-id request arrives and is served up to its first store call.
GoGetServiceByID ==
    /\ Len(calls) < MaxCalls
    /\ \E n \in ConcurrentIDs :
          LET c == [kind |-> "get", pc |-> "byid", arg |-> <<>>, id |-> <<n>>,
                    query |-> <<>>, total |-> 0, rows |-> <<>>,
                    services |-> <<>>, ret |-> NoReturn, w |-> NoResponseWriter,
                    dbErr |-> <<>>]
          IN  calls' = Append(calls,
                         IF InvalidID(n)
                         THEN CallReturn(c, [response |-> <<>>,
                                             err |-> ErrInvalidServiceID(n)])
                         ELSE c)
    /\ ConcurrentFrame

\* The steps of GetAll and GetByID, taken by one of the calls.  Of the ways
\* the versions query of a call can be cut short, one is explored, the one
\* that yields no version.
ConcurrentCount ==
    /\ \E p \in DOMAIN calls :
          /\ calls[p].pc = "count"
          /\ \E next \in {[calls[p] EXCEPT !.pc = "list",
                                !.total = SelectCount(db, CountStmt(calls[p].query[1]))],
                           CallFailed(calls[p])} :
                calls' = [calls EXCEPT ![p] = next]
    /\ ConcurrentFrame

ConcurrentServices ==
    /\ \E p \in DOMAIN calls :
          /\ calls[p].pc = "list"
          /\ \E next \in {[calls[p] EXCEPT !.pc = "rows",
                                !.rows = SelectServices(db, ServicesStmt(calls[p].query[1]))],
                           CallFailed(calls[p])} :
                calls' = [calls EXCEPT ![p] = next]
    /\ ConcurrentFrame

ConcurrentRowsNext ==
    /\ \E p \in DOMAIN calls :
          /\ calls[p].pc = "rows"
          /\ calls[p].rows # <<>>
          /\ \/ \E versions \in getVersionsByServiceID(db, Head(calls[p].rows).id) :
                   LET short == versions # SelectVersions(db, Head(calls[p].rows).id)
                   IN  /\ short => (calls[p].dbErr = <<>> /\ versions = <<>>)
                       /\ calls' = [calls EXCEPT ![p] =
                              [@ EXCEPT !.services =
                                            Append(Accumulated(calls, p),
                                                   [service  |-> Head(calls[p].rows),
                                                    versions |-> versions]),
                                        !.rows = Tail(@),
                                        !.dbErr = IF short THEN <<StoreError>> ELSE @]]
             \/ calls' = [calls EXCEPT ![p] = CallFailed(@)]
    /\ ConcurrentFrame

ConcurrentRowsEnd ==
    /\ \E p \in DOMAIN calls :
          /\ calls[p].pc = "rows"
          /\ calls' = [calls EXCEPT ![p] =
                 [CallReturn(@, [response |-> <<Response(@.query[1], @.services, @.total)>>,
                                 err |-> <<>>])
                     EXCEPT !.dbErr = IF calls[p].rows # <<>> THEN <<StoreError>> ELSE @]]
    /\ ConcurrentFrame

ConcurrentByID ==
    /\ \E p \in DOMAIN calls :
          /\ calls[p].pc = "byid"
          /\ \/ /\ SelectByID(db, calls[p].id[1]) # {}
                /\ calls' = [calls EXCEPT ![p] =
                       [@ EXCEPT !.pc = "versions",
                                 !.rows = <<CHOOSE row \in SelectByID(db, calls[p].id[1]) : TRUE>>]]
             \/ /\ SelectByID(db, calls[p].id[1]) = {}
                /\ calls' = [calls EXCEPT ![p] =
                       CallReturn(@, GetServiceByIDResult(GetByIDScanFailed(ErrNoRows)))]
             \/ calls' = [calls EXCEPT ![p] = CallFailed(@)]
    /\ ConcurrentFrame

ConcurrentVersions ==
    /\ \E p \in DOMAIN calls :
          /\ calls[p].pc = "versions"
          /\ \/ \E versions \in {SelectVersions(db, calls[p].rows[1].id), <<>>}
                                   \cap getVersionsByServiceID(db, calls[p].rows[1].id) :
                   calls' = [calls EXCEPT ![p] =
                      [CallReturn(@, GetServiceByIDResult(
                           [result |-> <<[service |-> @.rows[1], versions |-> versions]>>,
                            err |-> <<>>]))
                          EXCEPT !.dbErr = IF versions # SelectVersions(db, calls[p].rows[1].id)
                                           THEN <<StoreError>> ELSE @]]
             \/ calls' = [calls EXCEPT ![p] = CallFailed(@)]
    /\ ConcurrentFrame

NextConcurrent ==
    \/ GoGetServices
    \/ GoGetServiceByID
    \/ ConcurrentCount
    \/ ConcurrentServices
    \/ ConcurrentRowsNext
    \/ ConcurrentRowsEnd
    \/ ConcurrentByID
    \/ ConcurrentVersions

SpecConcurrent == Init /\ [][NextConcurrent]_vars

(***************************************************************************)
(* The claims.                                                              *)
(***************************************************************************)
\* The call in progress or just over, where there is one.
Called == arg # <<>>
Succeeded == pc = "done" /\ Called /\ ret.err = <<>>
IsServicesStmt == stmt.sql = "SELECT ... FROM services s"
\* LIMIT and OFFSET as bound to the services statement.
StmtLimit == stmt.args[Len(stmt.args) - 1]
StmtOffset == stmt.args[Len(stmt.args)]

\* C1: a list query whose pageSize is greater than 100 is served with the
\* page size 100: 100 is the LIMIT bound to the services statement and the
\* page_size of the response (as returned and as written by the handler).
C1_PageSizeCappedAt100 ==
    (Called /\ arg[1].PageSize > 100) =>
        /\ query[1].PageSize = 100
        /\ IsServicesStmt => StmtLimit = 100
        /\ Succeeded => ret.response[1].PageSize = 100
        /\ w.status = 200 => w.json[1].PageSize = 100

\* C1's case: a request with page_size above 100 has been answered.
C1_Witness ==
    /\ Succeeded /\ r # <<>> /\ r[1].page_size = "101"
    /\ arg[1].PageSize = 101
    /\ IsServicesStmt /\ StmtLimit = 100
    /\ w.status = 200 /\ w.json[1].PageSize = 100

\* C2: a list query with page <= 0, or with no page parameter, is served
\* with page 1, and one with pageSize <= 0, or with no page_size parameter,
\* with page size 12: these are the values the services statement is built
\* from (OFFSET 0 for page 1, LIMIT 12) and the ones the response carries.
C2_PageAndPageSizeDefaults ==
    Called =>
        /\ (arg[1].Page <= 0 \/ (r # <<>> /\ r[1].page = "")) =>
              /\ query[1].Page = 1
              /\ IsServicesStmt => StmtOffset = 0
              /\ Succeeded => ret.response[1].Page = 1
              /\ w.status = 200 => w.json[1].Page = 1
        /\ (arg[1].PageSize <= 0 \/ (r # <<>> /\ r[1].page_size = "")) =>
              /\ query[1].PageSize = 12
              /\ IsServicesStmt => StmtLimit = 12
              /\ Succeeded => ret.response[1].PageSize = 12
              /\ w.status = 200 => w.json[1].PageSize = 12

\* C2's case: a call with page 0 and a negative page size has succeeded.
C2_Witness ==
    /\ Succeeded /\ arg[1].Page = 0 /\ arg[1].PageSize = -1
    /\ IsServicesStmt /\ StmtLimit = 12 /\ StmtOffset = 0
    /\ ret.response[1].Page = 1 /\ ret.response[1].PageSize = 12

\* C3: the validated query, the one handed to the repository, has
\* page >= 1, 1 <= pageSize <= 100 and sortDir "asc" or "desc", whatever the
\* input was, and so have the page and page_size of a successful response.
C3_ValidatedQueryInRange ==
    Called =>
        /\ query[1].Page >= 1
        /\ query[1].PageSize >= 1 /\ query[1].PageSize <= 100
        /\ query[1].SortDir \in {"asc", "desc"}
        /\ Succeeded =>
              /\ ret.response[1].Page >= 1
              /\ ret.response[1].PageSize >= 1 /\ ret.response[1].PageSize <= 100

\* C3's case: a call whose page, page size and direction were all out of
\* range has succeeded.
C3_Witness ==
    /\ Succeeded
    /\ arg[1].Page <= 0 /\ arg[1].PageSize > 100 /\ arg[1].SortDir = "DESC"
    /\ query[1].SortDir = "asc"

\* The items of the response of a call that succeeded.
Items == ret.response[1].Services

\* The items are in the order of a column, in a direction, ties in any order.
Ordered(items, column, direction) ==
    \A i, j \in 1..Len(items) :
        i < j =>
            LET c == SortKeyCompare(items[i].service, items[j].service, column)
            IN  IF direction = "DESC" THEN c >= 0 ELSE c <= 0

\* The column a sort field names.
SortColumn(sortBy) ==
    CASE sortBy = "name"       -> "s.name"
      [] sortBy = "created_at" -> "s.created_at"
      [] sortBy = "updated_at" -> "s.updated_at"

\* C4: the items of a successful list response are in the order of the
\* chosen sort field (name, created_at, updated_at) in the chosen direction
\* (asc, desc), ties in any order; with no sort parameters they are in
\* ascending name order, and the first item of the first page of the seeded
\* store is then "Collect Monday".
C4_ItemsOrderedAsChosen ==
    Succeeded =>
        /\ (arg[1].SortBy \in {"name", "created_at", "updated_at"}
                /\ arg[1].SortDir \in {"asc", "desc"}) =>
              Ordered(Items, SortColumn(arg[1].SortBy),
                      IF arg[1].SortDir = "desc" THEN "DESC" ELSE "ASC")
        /\ (arg[1].SortBy = "" /\ arg[1].SortDir = "") =>
              /\ Ordered(Items, "s.name", "ASC")
              /\ (db.services = SeedServices /\ arg[1].Search = ""
                      /\ query[1].Page = 1 /\ Items # <<>>) =>
                    Items[1].service.name = "Collect Monday"

\* C4's case: sort_by=name, sort_dir=desc on the seeded store has returned
\* the eight services, "Security" first and "Collect Monday" last.
C4_Witness ==
    /\ Succeeded /\ db.services = SeedServices
    /\ arg[1].SortBy = "name" /\ arg[1].SortDir = "desc" /\ arg[1].Search = ""
    /\ Len(Items) = 8
    /\ Items[1].service.name = "Security"
    /\ Items[8].service.name = "Collect Monday"

\* C5: a sort field that is none of name, createdAt, created_at, updatedAt,
\* updated_at (the empty one included) gives a list sorted by name: the
\* ORDER BY column is s.name and the items are in name order; and the ORDER
\* BY clause of every services statement is one of the fixed columns with
\* ASC or DESC, never text of the request.
C5_UnknownSortFieldSortsByName ==
    Called =>
        /\ arg[1].SortBy \notin {"name", "createdAt", "created_at", "updatedAt", "updated_at"} =>
              /\ IsServicesStmt => stmt.orderBy[1] = "s.name"
              /\ Succeeded => \/ Ordered(Items, "s.name", "ASC")
                              \/ Ordered(Items, "s.name", "DESC")
        /\ IsServicesStmt =>
              stmt.orderBy \in {"s.name", "s.created_at", "s.updated_at"} \X {"ASC", "DESC"}

\* C5's case: a call with the sort field "id" has returned services of
\* different names, in name order.
C5_Witness ==
    /\ Succeeded /\ arg[1].SortBy = "id"
    /\ IsServicesStmt /\ stmt.orderBy[1] = "s.name"
    /\ Len(Items) >= 2
    /\ SortKeyCompare(Items[1].service, Items[2].service, "s.name") # 0

\* C6: with a sort field of the switch, the direction of the ORDER BY clause
\* is DESC when the sort direction given equals "desc" in any letter case,
\* ASC when it equals "asc" in any letter case, and ASC for anything else.
C6_SortDirInAnyCase ==
    (Called /\ IsServicesStmt /\ arg[1].SortBy \in {"name", "created_at", "updated_at"}) =>
        stmt.orderBy[2] =
            IF ToUpper(Chars[arg[1].SortDir]) = Chars["DESC"] THEN "DESC" ELSE "ASC"

\* C7: in a successful response TotalPages is the ceiling of Total / PageSize,
\* the least number of pages of PageSize items that hold Total items; it is 0
\* exactly when Total is 0; Total 8 gives 2 pages of 5 and 1 page of 12.
C7_TotalPagesIsCeiling ==
    Succeeded =>
        LET resp == ret.response[1]
        IN  /\ resp.PageSize = query[1].PageSize
            /\ resp.TotalPages * resp.PageSize >= resp.Total
            /\ (resp.TotalPages - 1) * resp.PageSize < resp.Total
            /\ resp.TotalPages = 0 <=> resp.Total = 0
            /\ (resp.Total = 8 /\ resp.PageSize = 5) => resp.TotalPages = 2
            /\ (resp.Total = 8 /\ resp.PageSize = 12) => resp.TotalPages = 1

\* C7's case: a response with 8 services in pages of 5.
C7_Witness ==
    /\ Succeeded
    /\ ret.response[1].Total = 8 /\ ret.response[1].PageSize = 5
    /\ ret.response[1].TotalPages = 2

\* C8: the total of a successful response does not depend on the page, the
\* page size or the sort: it equals the total the caller's previous
\* successful call with the same search reported on the same store, also when
\* the page is past the last one.
C8_TotalIndependentOfPaging ==
    (Succeeded /\ last # <<>> /\ last[1].Search = query[1].Search) =>
        ret.response[1].Total = last[1].Total

\* C8's case: after a first page, a page past the last one of the same
\* search has come back empty, the total of the first still reported.
C8_Witness ==
    /\ Succeeded /\ last # <<>> /\ last[1].Search = query[1].Search
    /\ last[1].Page = 1 /\ last[1].Total > 0
    /\ ret.response[1].Page = 2 /\ Items = <<>>
    /\ ret.response[1].Total = last[1].Total

\* The bytes p occur in the bytes s somewhere, letter case apart.
Contains(s, p) ==
    \E k \in 0..(Len(s) - Len(p)) : \A i \in 1..Len(p) : s[k + i] = p[i]

\* The services a search text matches when each of its characters is taken
\* literally (in the letter case the store's collation is free to ignore).
Matching(search) ==
    {row \in db.services :
        \/ search = ""
        \/ Contains(UpperChars[row.name], UpperChars[search])
        \/ Contains(UpperChars[row.description], UpperChars[search])}

\* C9: a service matches a search exactly when the search text, every
\* character taken literally, is a substring of its name or description,
\* and an empty search matches every service: the total of a successful
\* response is the number of such services and every item is one of them.
C9_SearchIsLiteralSubstring ==
    Succeeded =>
        /\ ret.response[1].Total = Cardinality(Matching(arg[1].Search))
        /\ \A i \in 1..Len(Items) : Items[i].service \in Matching(arg[1].Search)

\* C10: the number of items of a successful response is
\* min(PageSize, max(0, Total - (Page - 1) * PageSize)).
C10_ItemsOnPage ==
    Succeeded =>
        LET resp == ret.response[1]
            left == resp.Total - (resp.Page - 1) * resp.PageSize
            rest == IF left < 0 THEN 0 ELSE left
        IN  Len(Items) = IF resp.PageSize < rest THEN resp.PageSize ELSE rest

\* C10 for a call whose rows were all read: what the wrapped offset alone
\* does to the page.
C10_ItemsOnPageRowsRead ==
    (pc = "rows" /\ rows = <<>>) =>
        LET left == total - (query[1].Page - 1) * query[1].PageSize
            rest == IF left < 0 THEN 0 ELSE left
        IN  Len(services) = IF query[1].PageSize < rest THEN query[1].PageSize ELSE rest

\* A GetServiceByID call is over.
GetCallDone == pc = "done" /\ id # <<>>
GetCallSucceeded == GetCallDone /\ ret.err = <<>>

\* C11: GetServiceByID with an id <= 0 fails with the invalid-id error and
\* returns no service, and no statement was sent to the store for it.
C11_InvalidIDNoStoreCall ==
    (id # <<>> /\ id[1] <= 0) =>
        /\ pc = "done"
        /\ ret.response = <<>>
        /\ ret.err = IF id[1] = 0 THEN <<"invalid service ID: ", "0">>
                     ELSE <<"invalid service ID: ", "-1">>
        /\ stmt = NoStmt /\ rows = <<>> /\ dbErr = <<>>

\* C11's case: GetServiceByID(-1) has returned.
C11_Witness ==
    /\ pc = "done" /\ id = <<-1>>
    /\ ret.err = <<"invalid service ID: ", "-1">>
    /\ stmt = NoStmt

\* C12: GetServiceByID with a positive id that no service has, the lookup
\* not failing, returns the not-found error; the not-found error is returned
\* only then; and a failure of the store is returned as "failed to get
\* service", never as not found.
C12_AbsentIsNotFound ==
    (GetCallDone /\ id[1] > 0) =>
        /\ (SelectByID(db, id[1]) = {} /\ dbErr = <<>>) =>
              (ret.err = <<"service not found">> /\ ret.response = <<>>)
        /\ ret.err = <<"service not found">> =>
              (SelectByID(db, id[1]) = {} /\ dbErr = <<>>)
        /\ dbErr # <<>> => ret.err # <<"service not found">>
        /\ (dbErr # <<>> /\ ret.response = <<>>) =>
              ret.err = <<"failed to get service: ", StoreError>>

\* C12's case: the lookup of id 12, which no service has, has returned not
\* found.
C12_Witness ==
    /\ GetCallDone /\ id = <<12>>
    /\ stmt = GetByIDStmt(12) /\ dbErr = <<>>
    /\ ret.err = <<"service not found">>

\* The sequence vs holds exactly the stored versions of service sid, newest
\* first.
VersionsOf(vs, sid) ==
    /\ {vs[i] : i \in 1..Len(vs)} = {v \in db.service_versions : v.service_id = sid}
    /\ Len(vs) = Cardinality({v \in db.service_versions : v.service_id = sid})
    /\ \A i, j \in 1..Len(vs) : i < j => vs[i].created_at >= vs[j].created_at

\* C13: every item of a successful list response, and the service a
\* successful get-by-id returns, carries exactly the stored versions of its
\* own id, newest first; get-by-id returns the service of the id asked for.
C13_VersionsOfService ==
    /\ Succeeded =>
          \A i \in 1..Len(Items) : VersionsOf(Items[i].versions, Items[i].service.id)
    /\ GetCallSucceeded =>
          /\ ret.response[1].service.id = id[1]
          /\ VersionsOf(ret.response[1].versions, id[1])

\* C13 for the calls during which the store reported no error.
C13_VersionsOfServiceNoStoreError ==
    dbErr = <<>> => C13_VersionsOfService

\* C14: a list call during which the store reported an error returns an
\* error and no response; the handler does not answer it 200.
C14_StoreErrorAbortsList ==
    (pc = "done" /\ Called /\ dbErr # <<>>) =>
        /\ ret.err # <<>>
        /\ ret.response = <<>>
        /\ w.status # 200

\* C15: in the get-by-id endpoint the invalid-id error (id <= 0) and the
\* not-found error are both answered 404, every other error 500.
C15_InvalidAndNotFoundAre404 ==
    (GetCallDone /\ muxVars # <<>> /\ ret.err # <<>>) =>
        IF id[1] <= 0 \/ ret.err = <<"service not found">>
        THEN w.status = 404
        ELSE w.status = 500

\* The bodies the endpoints write besides JSON.
FixedTexts ==
    {"", "Internal server error", "Service not found", "Invalid service ID",
     "Service ID is required"}

\* C16: no response body of the list or get-by-id endpoint holds text of a
\* store error: a body is the JSON of a successful return or one of the
\* handlers' fixed texts, and a store failure that is answered as an error
\* is answered 500 "Internal server error"; and what GetServiceByID returns
\* tells the three outcomes apart: "invalid service ID" exactly for an id
\* <= 0, "service not found" only without a store error, "failed to get
\* service" only with one.
C16_NoStoreErrorTextInBody ==
    (r # <<>> \/ muxVars # <<>>) =>
        /\ w.text \in FixedTexts /\ w.text # StoreError
        /\ w.json # <<>> => (w.status = 200 /\ ret.err = <<>> /\ w.json = ret.response)
        /\ (pc = "done" /\ dbErr # <<>> /\ w.status # 200) =>
              (w.status = 500 /\ w.text = "Internal server error")
        /\ (GetCallDone /\ ret.err # <<>>) =>
              /\ ret.err[1] \in {"invalid service ID: ", "service not found",
                                 "failed to get service: "}
              /\ ret.err[1] = "invalid service ID: " <=> id[1] <= 0
              /\ ret.err[1] = "service not found" => dbErr = <<>>
              /\ ret.err[1] = "failed to get service: " <=> dbErr # <<>>

\* C16's case: a get-by-id request during which the store failed has been
\* answered with the generic message.
C16_Witness ==
    /\ GetCallDone /\ muxVars # <<>> /\ dbErr = <<StoreError>>
    /\ ret.err = <<"failed to get service: ", StoreError>>
    /\ w.status = 500 /\ w.text = "Internal server error"

\* C17: in the list endpoint a page parameter that is not a number or not
\* positive leaves Page 1 in the query handed to the service, a page_size
\* parameter of that kind leaves PageSize 12, and the request is served: it
\* is answered 200, or 500 when the store failed, never rejected.
C17_BadPagingParametersIgnored ==
    r # <<>> =>
        /\ r[1].page \in {"abc", "-1", "0"} => arg[1].Page = 1
        /\ r[1].page_size \in {"abc", "0"} => arg[1].PageSize = 12
        /\ (r[1].page \in {"abc", "-1", "0"} \/ r[1].page_size \in {"abc", "0"}) =>
              /\ pc # "idle"
              /\ pc = "done" => \/ w.status = 200 /\ ret.err = <<>>
                                \/ w.status = 500 /\ dbErr # <<>>

\* C17's case: a request with page=abc and page_size=0 has been answered
\* 200 with page 1 and page size 12.
C17_Witness ==
    /\ Succeeded /\ r # <<>> /\ r[1].page = "abc" /\ r[1].page_size = "0"
    /\ arg[1].Page = 1 /\ arg[1].PageSize = 12
    /\ w.status = 200 /\ w.json[1].Page = 1 /\ w.json[1].PageSize = 12

\* The request was made of one of the routers and matched a route to one of
\* the two endpoints under /api/v1.
Routed == request # <<>> /\ request[1].router \in Routers

EndpointMatched ==
    /\ request # <<>> /\ request[1].match # <<>>
    /\ request[1].match[1].handler \in {"GetServices", "GetServiceByID"}

\* Neither handler of the services was called, nor the service, nor the store.
HandlerNotReached ==
    /\ r = <<>> /\ muxVars = <<>> /\ arg = <<>> /\ id = <<>>
    /\ ret = NoReturn /\ stmt = NoStmt

\* C18: in each router the program builds, a request for
\* /api/v1/services/abc, made with the token admin-token, matches no
\* route: it is answered 404 and neither the GetServiceByID handler nor
\* the service is reached.
C18_NonIntegerSegmentIsRoutingNotFound ==
    (/\ Routed
     /\ request[1].path = <<"api", "v1", "services", "abc">>
     /\ request[1].Authorization = "Bearer admin-token") =>
        /\ request[1].match = <<>>
        /\ pc = "done" /\ w.status = 404
        /\ HandlerNotReached

RoleChecked ==
    /\ request # <<>> /\ request[1].match # <<>>
    /\ \E i \in 1..Len(request[1].match[1].middlewares) :
          request[1].match[1].middlewares[i] \in {"RoleAuthorization", "AuthorizeRoles"}
    /\ w.status # 401

\* The user of the request's context has one of the roles admin and viewer.
HasAllowedRole ==
    /\ ctx # <<>>
    /\ \E i \in 1..Len(ctx[1].Roles) : ctx[1].Roles[i] \in {"admin", "viewer"}

\* C20: a request of either endpoint carrying admin-token or viewer-token
\* has the user with that role in its context and reaches its handler, in
\* the server's router and in SetupRouter's; and where the role check
\* runs, a user with one of the roles admin and viewer reaches the handler
\* of either endpoint, while any other user, or none, is answered 403
\* without the handler being reached.
C20_RoleCheck ==
    /\ (/\ Routed /\ request[1].router \in {"main", "SetupRouter"}
        /\ EndpointMatched
        /\ request[1].Authorization \in {"Bearer admin-token", "Bearer viewer-token"}) =>
           /\ ctx = <<[Username |-> IF request[1].Authorization = "Bearer admin-token"
                                     THEN "admin" ELSE "viewer",
                       Roles |-> <<IF request[1].Authorization = "Bearer admin-token"
                                   THEN "admin" ELSE "viewer">>]>>
           /\ w.status \notin {401, 403}
           /\ IF request[1].match[1].handler = "GetServices"
              THEN r # <<>> ELSE muxVars # <<>>
    /\ RoleChecked =>
           IF HasAllowedRole
           THEN /\ w.status # 403
                /\ IF request[1].match[1].handler = "GetServices"
                   THEN r # <<>> ELSE muxVars # <<>>
           ELSE /\ pc = "done" /\ w.status = 403 /\ w.text = "Forbidden"
                /\ HandlerNotReached

\* C20's case: the role check has turned away a user whose only role is
\* guest with 403.
C20_Witness ==
    /\ RoleChecked /\ ctx # <<>> /\ ctx[1].Roles = <<"guest">>
    /\ pc = "done" /\ w.status = 403 /\ w.text = "Forbidden"
    /\ HandlerNotReached

\* C21: in the router of main and in SetupRouter's, GET /health without an
\* Authorization header is answered 200 with the body OK.
C21_HealthNeedsNoAuthorization ==
    (/\ Routed /\ request[1].router \in {"main", "SetupRouter"}
     /\ request[1].path = <<"health">>
     /\ request[1].Authorization = "") =>
        /\ pc = "done" /\ w.status = 200 /\ w.text = "OK"

\* C25: a list call with the direction "desc" and a sort field that is empty
\* or none of name, created_at, updated_at is ordered by name descending:
\* that is the ORDER BY clause of its services statement and the order of
\* the items it returns.
C25_DirectionAppliedToFallback ==
    (/\ Called /\ arg[1].SortDir = "desc"
     /\ arg[1].SortBy \notin {"name", "created_at", "updated_at"}) =>
        /\ IsServicesStmt => stmt.orderBy = <<"s.name", "DESC">>
        /\ Succeeded => Ordered(Items, "s.name", "DESC")

\* C27: the OFFSET bound to the services statement is the product
\* (page - 1) * pageSize of the validated page and page size, and is not
\* negative.
C27_OffsetDoesNotWrap ==
    (Called /\ IsServicesStmt) =>
        /\ StmtOffset = (query[1].Page - 1) * query[1].PageSize
        /\ StmtOffset >= 0

\* C28: in the router of main, the route matched by a request that reached
\* the GetServices or the GetServiceByID handler has AuthMiddleware and
\* then RoleAuthorization in front of the handler.
C28_RoleCheckBeforeHandlers ==
    (/\ Routed /\ request[1].router = "main"
     /\ (r # <<>> \/ muxVars # <<>>)) =>
        request[1].match[1].middlewares = <<"AuthMiddleware", "RoleAuthorization">>

\* The services the call's search matches in the store, in the order of
\* their names (unique in the table) in the direction of the statement.
MatchingInNameOrder ==
    SortRows({row \in db.services : WhereHolds(row, CountStmt(query[1]))},
             <<"s.name", stmt.orderBy[2]>>, db.rowOrder)

\* Page number page of a sequence cut into pages of size items.
PageOf(seq, page, size) ==
    LET upto == IF page * size > Len(seq) THEN Len(seq) ELSE page * size
    IN  IF (page - 1) * size >= Len(seq) THEN <<>>
        ELSE SubSeq(seq, (page - 1) * size + 1, upto)

\* The items of a successful list call sorted by name are the page of its
\* number of the matching services in name order, its total their number.
PageIsItsSlice ==
    /\ [i \in 1..Len(Items) |-> Items[i].service]
          = PageOf(MatchingInNameOrder, query[1].Page, query[1].PageSize)
    /\ ret.response[1].Total = Len(MatchingInNameOrder)
    /\ ret.response[1].Page > ret.response[1].TotalPages => Items = <<>>

\* C26: over a store and a search, sort by name and page size, page p holds
\* the matching services number (p-1)*pageSize+1 to p*pageSize of the name
\* order, so that pages 1..totalPages put end to end give each matching
\* service once, in order; a page past totalPages has no items; and every
\* page reports the number of matching services as its total.  Stated of
\* the calls during which the store reported no error.
C26_PagesPartitionTheResult ==
    (Succeeded /\ arg[1].SortBy \in {"", "name"} /\ dbErr = <<>>) => PageIsItsSlice

\* C26 for the calls whose offset is within the int's range.
C26_PagesPartitionOffsetInRange ==
    (/\ Succeeded /\ arg[1].SortBy \in {"", "name"}
     /\ dbErr = <<>>
     /\ (query[1].Page - 1) * query[1].PageSize <= MaxInt) => PageIsItsSlice

\* C22: a list query made again against the unchanged store returns the
\* response of the first time: the same items with the same versions in
\* the same order, the same total, page, page size and total pages,
\* whatever the sort field, ties included.
C22_RepeatedQueryIdenticalResponse ==
    (Succeeded /\ last # <<>>) => ret.response[1] = last[1].Response

\* C22 for two calls during which the store reported no error.
C22_RepeatedQueryIdenticalNoStoreError ==
    (Succeeded /\ last # <<>> /\ dbErr = <<>> /\ last[1].dbErr = <<>>) =>
        ret.response[1] = last[1].Response

\* C29: the number of items of a successful list response does not exceed
\* its total, also when services are inserted or deleted between the
\* call's queries.
C29_ItemsWithinTotal ==
    Succeeded => Len(Items) <= ret.response[1].Total

\* C24: once the request's context is cancelled, the list or get-by-id
\* call under way sends no further statement to the store and builds no
\* further item, and it ends with the error "context canceled", not with
\* a success and not answered 200.
C24_CancellationHonoured ==
    cancelled # <<>> =>
        /\ stmt = cancelled[1].stmt
        /\ pc # "done" => Len(services) = cancelled[1].services
        /\ pc = "done" =>
              /\ ret.err # <<>> /\ ret.err[Len(ret.err)] = "context canceled"
              /\ w.status # 200

\* C30: whenever InitDB has returned nil, on a store that was empty at
\* first and that no one else writes, the store holds the 8 seed services
\* and the 3 versions of each, 24 in all, and nothing else.
C30_SeedingAllOrNothing ==
    (seed.pc = "returned" /\ seed.err = <<>>) =>
        /\ db.services = SeedServices
        /\ db.service_versions = SeedVersions
        /\ Cardinality(db.services) = 8 /\ Cardinality(db.service_versions) = 24

\* C30 for the run that found the store empty.
C30_SeedingRunComplete ==
    (seed.pc = "returned" /\ seed.err = <<>> /\ seed.i > 0) =>
        /\ db.services = SeedServices
        /\ db.service_versions = SeedVersions

\* What a call returns, and its handler writes, when it runs alone on the
\* store and the store reports no error.
Alone(c) ==
    IF c.kind = "list"
    THEN LET q     == Validate(c.arg[1])
             found == SelectServices(db, ServicesStmt(q))
             items == [i \in 1..Len(found) |->
                          [service |-> found[i],
                           versions |-> SelectVersions(db, found[i].id)]]
         IN  [response |-> <<Response(q, items, SelectCount(db, CountStmt(q)))>>,
              err |-> <<>>]
    ELSE IF c.id[1] <= 0
    THEN [response |-> <<>>, err |-> <<"invalid service ID: ", Itoa(c.id[1])>>]
    ELSE IF \E row \in db.services : row.id = c.id[1]
    THEN LET row == CHOOSE x \in db.services : x.id = c.id[1]
         IN  [response |-> <<[service |-> row, versions |-> SelectVersions(db, row.id)]>>,
              err |-> <<>>]
    ELSE [response |-> <<>>, err |-> <<"service not found">>]

AloneWritten(c) ==
    LET res == Alone(c)
    IN  IF res.err = <<>> THEN [status |-> 200, text |-> "", json |-> res.response]
        ELSE IF c.kind = "get" /\ res.err = <<"service not found">>
        THEN [status |-> 404, text |-> "Service not found", json |-> <<>>]
        ELSE [status |-> 500, text |-> "Internal server error", json |-> <<>>]

\* C23: every one of the list and get-by-id calls running side by side on
\* the unchanged store, the store reporting it no error, returns what it
\* returns when run alone, and its handler writes the same response,
\* however the steps of the calls interleave.
C23_ConcurrentCallsAsAlone ==
    \A p \in DOMAIN calls :
        (calls[p].pc = "done" /\ calls[p].dbErr = <<>>) =>
            /\ calls[p].ret = Alone(calls[p])
            /\ calls[p].w = AloneWritten(calls[p])

\* C23's case: a list call that began after another list call has ended
\* with its two items while the other, an item built, is still reading.
C23_Witness ==
    /\ Len(calls) = 2
    /\ calls[1].kind = "list" /\ calls[1].pc = "rows" /\ Len(calls[1].services) >= 1
    /\ calls[2].kind = "list" /\ calls[2].pc = "done" /\ calls[2].dbErr = <<>>
    /\ Len(calls[2].ret.response[1].Services) = 2
    /\ calls[2].ret = Alone(calls[2])

====
